---- MODULE Spec2Model ----
(***************************************************************************)
(* Model of norm (src/src/main.rs): a ptrace supervisor that blocks the    *)
(* unlink and unlinkat system calls of a traced child.                     *)
(*                                                                         *)
(* Strings are sequences of bytes (numbers 0..255).  Registers are shown   *)
(* as signed 64-bit values, so u64::MAX and (-EPERM) as u64 read -1.       *)
(***************************************************************************)
EXTENDS Integers, Sequences, FiniteSets, TLC

(***************************************************************************)
(* Bounds of the model.                                                    *)
(***************************************************************************)
MaxCalls == 2
MaxSignals == 1
MaxStrLen == 7
MaxPad == 8

(***************************************************************************)
(* Program constants.                                                      *)
(***************************************************************************)
SYS_unlink == 87
SYS_unlinkat == 263
AT_FDCWD == -100
EPERM == 1
InvalidSyscall == -1
WordBytes == 8
ChunkBytes == 4
NUL == 0
NL == 10
DOT == 46
SEP == 47

(***************************************************************************)
(* Linux x86-64 numbers the tracee and the kernel use, and the bytes the   *)
(* sample strings are made of: 'a', 'd' and 0xFF (never valid in UTF-8).   *)
(***************************************************************************)
Linux == [SYS_chdir |-> 80, SYS_getpid |-> 39, SYS_exit_group |-> 231,
          ENOSYS |-> 38, ENOENT |-> 2]
Byte == [a |-> 97, b |-> 98, d |-> 100, x |-> 120, bad |-> 255, junk |-> 1]

(***************************************************************************)
(* Byte-string helpers.                                                    *)
(***************************************************************************)
starts_with_slash(p) == Len(p) > 0 /\ p[1] = SEP

Truncate(s, n) == SubSeq(s, 1, n)

(***************************************************************************)
(* path_clean::clean, called through PathClean::clean at lines 168, 173,   *)
(* 183, 191, 197: a byte-wise port of Go's path.Clean.  Indices r, w and   *)
(* dotdot are zero-based as in the crate; path[r] is path[r + 1] here.     *)
(***************************************************************************)
RECURSIVE LastSep(_, _, _)
LastSep(out, w, dotdot) ==
    IF w > dotdot /\ out[w + 1] # SEP THEN LastSep(out, w - 1, dotdot) ELSE w

RECURSIVE ElementEnd(_, _)
ElementEnd(path, r) ==
    IF r < Len(path) /\ path[r + 1] # SEP THEN ElementEnd(path, r + 1) ELSE r

\* F applied to the value of x (x is evaluated once, before F)
With(x, F(_)) == CHOOSE v \in {F(y) : y \in {x}} : TRUE

RECURSIVE CleanLoop(_, _, _, _, _)
CleanLoop(path, rooted, r, out, dotdot) ==
    LET n == Len(path) IN
    IF r >= n THEN out
    ELSE IF path[r + 1] = SEP
            \/ (path[r + 1] = DOT /\ (r + 1 = n \/ path[r + 2] = SEP))
    THEN CleanLoop(path, rooted, r + 1, out, dotdot)
    ELSE IF path[r + 1] = DOT /\ path[r + 2] = DOT
            /\ (r + 2 = n \/ path[r + 3] = SEP)
    THEN IF Len(out) > dotdot
         THEN With(Truncate(out, LastSep(out, Len(out) - 1, dotdot)),
                   LAMBDA o : CleanLoop(path, rooted, r + 2, o, dotdot))
         ELSE IF ~rooted
         THEN With((IF Len(out) > 0 THEN Append(out, SEP) ELSE out) \o <<DOT, DOT>>,
                   LAMBDA o : CleanLoop(path, rooted, r + 2, o, Len(o)))
         ELSE CleanLoop(path, rooted, r + 2, out, dotdot)
    ELSE LET o1 == IF (rooted /\ Len(out) # 1) \/ (~rooted /\ Len(out) > 0)
                   THEN Append(out, SEP) ELSE out
             e == ElementEnd(path, r)
         IN With(o1 \o SubSeq(path, r + 1, e),
                 LAMBDA o : CleanLoop(path, rooted, e, o, dotdot))

clean_internal(path) ==
    IF Len(path) = 0 THEN <<DOT>>
    ELSE LET rooted == path[1] = SEP
             out == IF rooted THEN CleanLoop(path, TRUE, 1, <<SEP>>, 1)
                              ELSE CleanLoop(path, FALSE, 0, <<>>, 0)
         IN IF Len(out) = 0 THEN <<DOT>> ELSE out

clean(path) == With(path, LAMBDA q : clean_internal(q))

(***************************************************************************)
(* std::path::Path::join (PathBuf::push): an absolute argument replaces    *)
(* the base; otherwise a separator is added unless the base ends in one.   *)
(***************************************************************************)
\* a join that drops the base
join_forget_base(base, p) == p

join(base, p) ==
    IF starts_with_slash(p) THEN p
    ELSE IF Len(base) > 0 /\ base[Len(base)] # SEP THEN base \o <<SEP>> \o p
    ELSE base \o p

(***************************************************************************)
(* ptrace::read (PTRACE_PEEKDATA): transfers one 8-byte word at address s  *)
(* of the tracee memory mem (address 0 is mem[1]); fails when the word is  *)
(* not wholly mapped.                                                      *)
(***************************************************************************)
ptrace_read(mem, s) ==
    IF s >= 0 /\ s + WordBytes <= Len(mem)
    THEN [ok |-> TRUE, word |-> SubSeq(mem, s + 1, s + WordBytes)]
    ELSE [ok |-> FALSE, word |-> <<>>]

(***************************************************************************)
(* `i as u32`: the low 32 bits of the little-endian word, kept as two      *)
(* 16-bit halves <<low, high>>.                                            *)
(***************************************************************************)
as_u32(word) ==
    With(word, LAMBDA w : <<w[1] + 256 * w[2], w[3] + 256 * w[4]>>)

(***************************************************************************)
(* buf.write_u32::<LittleEndian>(v): least significant byte first.         *)
(***************************************************************************)
\* the big-endian byte order
write_u32_be(v) ==
    With(v, LAMBDA u : <<u[2] \div 256, u[2] % 256, u[1] \div 256, u[1] % 256>>)

write_u32(v) ==
    With(v, LAMBDA u : <<u[1] % 256, u[1] \div 256, u[2] % 256, u[2] \div 256>>)

(***************************************************************************)
(* from_utf8: with the bytes used here, a string is valid UTF-8 iff every  *)
(* byte is ASCII (the only non-ASCII byte is an isolated 0xFF).            *)
(***************************************************************************)
from_utf8_ok(buf) == \A i \in 1..Len(buf) : buf[i] < 128

(***************************************************************************)
(* ptrace_read_cstr, lines 231-255.  kind is "Ok" (with the string),       *)
(* "Err" (ptrace::read failed, `?`) or "Panic" (from_utf8(..).unwrap()).   *)
(***************************************************************************)
RECURSIVE read_loop(_, _, _)

\* lines 239-252: look for the terminator in the four bytes just written
scan_chunk(mem, s, buf) ==
    LET n == Len(buf)
    IN IF buf[n - 3] = NUL THEN [kind |-> "Ok", str |-> Truncate(buf, n - 4)]
       ELSE IF buf[n - 2] = NUL THEN [kind |-> "Ok", str |-> Truncate(buf, n - 3)]
       ELSE IF buf[n - 1] = NUL THEN [kind |-> "Ok", str |-> Truncate(buf, n - 2)]
       ELSE IF buf[n] = NUL THEN [kind |-> "Ok", str |-> Truncate(buf, n - 1)]
       ELSE read_loop(mem, s + ChunkBytes, buf)

\* lines 233-238: one transfer, appended to the buffer
read_loop(mem, s, buf0) ==
    LET r == ptrace_read(mem, s) IN
    IF ~r.ok THEN [kind |-> "Err", str |-> <<>>]
    ELSE With(buf0 \o write_u32(as_u32(r.word)), LAMBDA buf : scan_chunk(mem, s, buf))

ptrace_read_cstr(mem, s) ==
    With(read_loop(mem, s, <<>>),
         LAMBDA r : IF r.kind = "Ok" /\ ~from_utf8_ok(r.str)
                    THEN [kind |-> "Panic", str |-> <<>>] ELSE r)

(***************************************************************************)
(* Path resolution of the two watched calls.  cwd is what                  *)
(* env::current_dir() returns in the supervisor.                           *)
(***************************************************************************)
get_unlink_path_unresolved(p, cwd) == clean(p)

get_unlink_path(p, cwd) ==
    IF ~starts_with_slash(p) THEN clean(join(cwd, p)) ELSE clean(p)

\* get_unlinkat_path calls get_path_from_dirfd (line 188)
needs_dirfd_for_any_path(p, dirfd) == dirfd # AT_FDCWD

needs_dirfd(p, dirfd) == ~starts_with_slash(p) /\ dirfd # AT_FDCWD

\* dir_path is the result of get_path_from_dirfd, used only if needs_dirfd
get_unlinkat_path(p, dirfd, cwd, dir_path) ==
    IF ~starts_with_slash(p)
    THEN IF dirfd = AT_FDCWD THEN clean(join(cwd, p))
         ELSE clean(join(dir_path, p))
    ELSE clean(p)

dir_path_ok_no_newline_check(dir_path) ==
    ~(Len(dir_path) <= 0 \/ dir_path[1] # SEP)

dir_path_ok(dir_path) ==
    ~(Len(dir_path) <= 0 \/ dir_path[1] # SEP \/ dir_path[Len(dir_path)] # NL)

(***************************************************************************)
(* State.                                                                  *)
(***************************************************************************)
VARIABLES
    pc,            \* position of the supervisor in main
    optSet,        \* PTRACE_O_EXITKILL is set on the tracee
    tstate,        \* "none", "stopped", "running", "exited", "killed"
    stopKind,      \* kind of the tracee's current stop
    inKernel,      \* the tracee is between the entry and the exit of a call
    status,        \* wait status not yet collected by wait()
    kregs,         \* the tracee's registers
    tcall,         \* the system call the tracee issued last
    tmem,          \* tracee memory holding the path argument
    tcwd,          \* working directory of the tracee
    scwd,          \* working directory of the supervisor
    regs,          \* main's local register snapshot
    intercepted,
    blocked,
    checked_path,  \* <<>> is None, <<p>> is Some(p)
    rawp,          \* p of get_unlinkat_path while the helper runs
    helper,        \* "none", "running", "exited"
    hout,          \* bytes the helper wrote to the pipe
    logged,        \* info/debug lines about watched calls
    ncalls,
    nsignals,
    handling,      \* history: the stop at which regs was fetched
    decisions,     \* history: decisions taken, with the stop they were taken at
    performed,     \* history: calls whose deletion the kernel carried out
    writes,        \* history: register writes of the supervisor
    observed,      \* history: return values the tracee ran on with
    resumes,       \* history: number of resumes issued by the supervisor
    fin,           \* input of the function under test (SpecRead)
    fout           \* its result

vars == <<pc, optSet, tstate, stopKind, inKernel, status, kregs, tcall, tmem,
          tcwd, scwd, regs, intercepted, blocked, checked_path, rawp, helper,
          hout, logged, ncalls, nsignals, handling, decisions, performed, writes,
          observed, resumes, fin, fout>>

supVars == <<pc, optSet, regs, intercepted, blocked, checked_path, rawp, logged>>
traceeVars == <<tstate, stopKind, inKernel, status, kregs, tcall, tmem, tcwd,
                ncalls, nsignals>>
histVars == <<handling, decisions, performed, writes, observed, resumes>>
funVars == <<fin, fout>>

Terminal == {"done", "panicked"}
Watched == {SYS_unlink, SYS_unlinkat}

NoRegs == [orig_rax |-> InvalidSyscall, rax |-> 0, rdi |-> 0, rsi |-> 0]
NoCall == [id |-> 0, nr |-> InvalidSyscall]

Junk(n) == [i \in 1..n |-> Byte.junk]

PathArgs == {<<>>, <<Byte.a>>, <<SEP, Byte.a>>, <<DOT, DOT, SEP, Byte.a>>, <<Byte.bad>>}
Cwds == {<<SEP>>, <<SEP, Byte.d>>}
DirFds == {AT_FDCWD, 3}
HelperOutputs == {<<SEP, Byte.d, NL>>, <<SEP, NL>>, <<>>, <<Byte.d, NL>>, <<SEP, Byte.d>>}

(***************************************************************************)
(* The supervisor process ends (return from main or panic): the kernel     *)
(* kills a live tracee iff PTRACE_O_EXITKILL is set, else detaches it.     *)
(***************************************************************************)
AfterSupervisorExit(ts, opt) ==
    IF ts \in {"stopped", "running"} THEN (IF opt THEN "killed" ELSE "running") ELSE ts

InitMain ==
    /\ pc = "spawn"
    /\ optSet = FALSE
    /\ tstate = "none"
    /\ stopKind = "none"
    /\ inKernel = FALSE
    /\ status = "none"
    /\ kregs = NoRegs
    /\ tcall = NoCall
    /\ tmem = <<>>
    /\ scwd \in Cwds
    /\ tcwd = scwd
    /\ regs = NoRegs
    /\ intercepted = FALSE
    /\ blocked = FALSE
    /\ checked_path = <<>>
    /\ rawp = <<>>
    /\ helper = "none"
    /\ hout = <<>>
    /\ logged = <<>>
    /\ ncalls = 0
    /\ nsignals = 0
    /\ handling = [stop |-> "none", id |-> 0, nr |-> InvalidSyscall]
    /\ decisions = {}
    /\ performed = {}
    /\ writes = {}
    /\ observed = {}
    /\ resumes = 0
    /\ fout = [kind |-> "None", str |-> <<>>]

Init == InitMain /\ fin = <<>>

(***************************************************************************)
(* Shared pieces of the supervisor's steps.                                *)
(***************************************************************************)
\* the call whose entry or exit stop the tracee is in, NoCall at other stops
CallAtStop == IF stopKind \in {"entry", "exit"} THEN tcall ELSE NoCall

\* panic: the panic hook logs, the process ends
Panic_logged_and_continued ==
    /\ pc' = "resume_entry"
    /\ tstate' = tstate

Panic ==
    /\ pc' = "panicked"
    /\ tstate' = AfterSupervisorExit(tstate, optSet)

\* ptrace::syscall(pid, None) on a stopped tracee
ResumeTracee ==
    /\ tstate' = "running"
    /\ inKernel' = (stopKind = "entry")
    /\ stopKind' = "none"
    /\ observed' = IF stopKind = "exit"
                   THEN observed \cup {[id |-> tcall.id, nr |-> tcall.nr, ret |-> kregs.rax]}
                   ELSE observed
    /\ resumes' = resumes + 1

\* ptrace::setregs(pid, r) on a stopped tracee
SetRegs(r, site) ==
    /\ kregs' = r
    /\ writes' = writes \cup {[id |-> CallAtStop.id, nr |-> CallAtStop.nr,
                               stop |-> stopKind, site |-> site, regs |-> r,
                               old |-> kregs, fetched |-> handling]}

(***************************************************************************)
(* main, lines 67-72: spawn_ptrace leaves the child stopped after exec.    *)
(***************************************************************************)
Spawn ==
    /\ pc = "spawn"
    /\ \/ /\ pc' = "setoptions"
          /\ tstate' = "stopped"
          /\ stopKind' = "exec"
       \/ /\ pc' = "panicked"
          /\ UNCHANGED <<tstate, stopKind>>
    /\ UNCHANGED <<optSet, regs, intercepted, blocked, checked_path, rawp, logged,
                   inKernel, status, kregs, tcall, tmem, tcwd, scwd, ncalls,
                   nsignals, helper, hout, histVars, funVars>>

\* a supervisor that goes on without setting the option
SetOptions_skipped ==
    /\ pc = "setoptions"
    /\ pc' = "resume_entry"
    /\ UNCHANGED <<optSet, tstate, regs, intercepted, blocked, checked_path, rawp,
                   logged, stopKind, inKernel, status, kregs, tcall, tmem, tcwd,
                   scwd, ncalls, nsignals, helper, hout, histVars, funVars>>

(***************************************************************************)
(* main, lines 73-74: ptrace::setoptions(PTRACE_O_EXITKILL).expect(..).    *)
(***************************************************************************)
SetOptions ==
    /\ pc = "setoptions"
    /\ IF tstate = "stopped"
       THEN /\ optSet' = TRUE
            /\ pc' = "resume_entry"
            /\ UNCHANGED tstate
       ELSE /\ Panic
            /\ UNCHANGED optSet
    /\ UNCHANGED <<regs, intercepted, blocked, checked_path, rawp, logged,
                   stopKind, inKernel, status, kregs, tcall, tmem, tcwd, scwd,
                   ncalls, nsignals, helper, hout, histVars, funVars>>

\* a loop that retries the resume when the tracee is gone
ResumeEntry_retry ==
    /\ pc = "resume_entry"
    /\ IF tstate = "stopped"
       THEN /\ ResumeTracee
            /\ pc' = "wait_entry"
       ELSE UNCHANGED <<pc, tstate, inKernel, stopKind, observed, resumes>>
    /\ UNCHANGED <<optSet, regs, intercepted, blocked, checked_path, rawp, logged,
                   status, kregs, tcall, tmem, tcwd, scwd, ncalls, nsignals,
                   helper, hout, handling, decisions, performed, writes, funVars>>

(***************************************************************************)
(* main, lines 78-87: resume to the next stop; ESRCH ends the loop.        *)
(***************************************************************************)
ResumeEntry ==
    /\ pc = "resume_entry"
    /\ IF tstate = "stopped"
       THEN /\ ResumeTracee
            /\ pc' = "wait_entry"
       ELSE /\ pc' = "done"
            /\ tstate' = AfterSupervisorExit(tstate, optSet)
            /\ UNCHANGED <<inKernel, stopKind, observed, resumes>>
    /\ UNCHANGED <<optSet, regs, intercepted, blocked, checked_path, rawp, logged,
                   status, kregs, tcall, tmem, tcwd, scwd, ncalls, nsignals,
                   helper, hout, handling, decisions, performed, writes, funVars>>

(***************************************************************************)
(* main, lines 88-92: wait(); Exited or Signaled ends the loop.            *)
(***************************************************************************)
WaitEntry ==
    /\ pc = "wait_entry"
    /\ status # "none"
    /\ status' = "none"
    /\ IF status \in {"exited", "signaled"}
       THEN /\ pc' = "done"
            /\ tstate' = AfterSupervisorExit(tstate, optSet)
       ELSE /\ pc' = "getregs"
            /\ UNCHANGED tstate
    /\ UNCHANGED <<optSet, regs, intercepted, blocked, checked_path, rawp, logged,
                   stopKind, inKernel, kregs, tcall, tmem, tcwd, scwd, ncalls,
                   nsignals, helper, hout, histVars, funVars>>

(***************************************************************************)
(* main, lines 94-108: getregs(..).expect(..) and the three locals.        *)
(***************************************************************************)
GetRegs ==
    /\ pc = "getregs"
    /\ IF tstate = "stopped"
       THEN /\ regs' = kregs
            /\ intercepted' = FALSE
            /\ blocked' = FALSE
            /\ checked_path' = <<>>
            /\ pc' = "decode"
            /\ handling' = [stop |-> stopKind, id |-> CallAtStop.id, nr |-> CallAtStop.nr]
            /\ UNCHANGED tstate
       ELSE /\ Panic
            /\ UNCHANGED <<regs, intercepted, blocked, checked_path, handling>>
    /\ UNCHANGED <<optSet, rawp, logged, stopKind, inKernel, status, kregs, tcall,
                   tmem, tcwd, scwd, ncalls, nsignals, helper, hout, decisions,
                   performed, writes, observed, resumes, funVars>>

(***************************************************************************)
(* block_syscall, lines 156-159: the register values it writes.            *)
(***************************************************************************)
block_syscall(r) == [r EXCEPT !.orig_rax = InvalidSyscall]

(***************************************************************************)
(* main, lines 113-117 and 122-126: the check of the resolved path, and    *)
(* block_syscall's setregs(..).expect(..).                                 *)
(***************************************************************************)
Evaluate(nr, p, path, dir) ==
    /\ intercepted' = TRUE
    /\ rawp' = p
    /\ decisions' = decisions \cup
           {[id |-> handling.id, nr |-> nr, stop |-> handling.stop,
             block |-> starts_with_slash(path), path |-> path, raw |-> p,
             cwd |-> tcwd, dirfd |-> regs.rdi, dir |-> dir]}
    /\ IF starts_with_slash(path)
       THEN /\ blocked' = TRUE
            /\ checked_path' = <<path>>
            /\ regs' = block_syscall(regs)
            /\ IF tstate = "stopped"
               THEN /\ SetRegs(block_syscall(regs), "start")
                    /\ pc' = "resume_exit"
                    /\ UNCHANGED tstate
               ELSE /\ Panic
                    /\ UNCHANGED <<kregs, writes>>
       ELSE /\ pc' = "resume_exit"
            /\ UNCHANGED <<blocked, checked_path, regs, kregs, writes, tstate>>

(***************************************************************************)
(* main, lines 109-129, with get_unlink_path (163-175) and                 *)
(* get_unlinkat_path (177-199) up to the spawn of the helper (202-214).    *)
(***************************************************************************)
Decode ==
    /\ pc = "decode"
    /\ LET nr == regs.orig_rax
           addr == IF nr = SYS_unlink THEN regs.rdi ELSE regs.rsi
       IN \E rd \in {IF tstate = "stopped" /\ nr \in Watched
                     THEN ptrace_read_cstr(tmem, addr)
                     ELSE [kind |-> "Err", str |-> <<>>]} :
          IF nr \notin Watched
          THEN /\ pc' = "resume_exit"
               /\ UNCHANGED <<intercepted, blocked, checked_path, regs, rawp, kregs,
                              tstate, helper, decisions, writes>>
          ELSE IF rd.kind # "Ok"
          THEN /\ Panic
               /\ intercepted' = TRUE
               /\ UNCHANGED <<blocked, checked_path, regs, rawp, kregs, helper,
                              decisions, writes>>
          ELSE IF nr = SYS_unlink
          THEN /\ \E path \in {get_unlink_path(rd.str, scwd)} :
                     Evaluate(nr, rd.str, path, <<>>)
               /\ UNCHANGED helper
          ELSE IF ~needs_dirfd(rd.str, regs.rdi)
          THEN /\ \E path \in {get_unlinkat_path(rd.str, regs.rdi, scwd, <<>>)} :
                     Evaluate(nr, rd.str, path, <<>>)
               /\ UNCHANGED helper
          ELSE /\ intercepted' = TRUE
               /\ rawp' = rd.str
               /\ \/ /\ helper' = "running"
                     /\ pc' = "dirfd"
                     /\ UNCHANGED tstate
                  \/ /\ Panic
                     /\ UNCHANGED helper
               /\ UNCHANGED <<blocked, checked_path, regs, kregs, decisions, writes>>
    /\ UNCHANGED <<optSet, logged, stopKind, inKernel, status, tcall, tmem, tcwd,
                   scwd, ncalls, nsignals, hout, handling, performed, observed,
                   resumes, funVars>>

(***************************************************************************)
(* get_path_from_dirfd, lines 216-228, and the rest of get_unlinkat_path   *)
(* (189-194): the pipe has been read to its end and the helper waited for. *)
(***************************************************************************)
DirfdReturn ==
    /\ pc = "dirfd"
    /\ helper = "exited"
    /\ helper' = "none"
    /\ IF ~dir_path_ok(hout)
       THEN /\ Panic
            /\ UNCHANGED <<intercepted, blocked, checked_path, regs, rawp, kregs,
                           decisions, writes>>
       ELSE \E path \in {get_unlinkat_path(rawp, regs.rdi, scwd, hout)} :
               Evaluate(SYS_unlinkat, rawp, path, hout)
    /\ UNCHANGED <<optSet, logged, stopKind, inKernel, status, tcall, tmem, tcwd,
                   scwd, ncalls, nsignals, hout, handling, performed, observed,
                   resumes, funVars>>

(***************************************************************************)
(* The helper, lines 205-210: fchdir, print the directory, exit.           *)
(***************************************************************************)
HelperRun ==
    /\ helper = "running"
    /\ helper' = "exited"
    /\ hout' \in HelperOutputs
    /\ UNCHANGED <<supVars, traceeVars, scwd, histVars, funVars>>

(***************************************************************************)
(* main, line 131: ptrace::syscall(pid, None).expect(..).                  *)
(***************************************************************************)
ResumeExit ==
    /\ pc = "resume_exit"
    /\ IF tstate = "stopped"
       THEN /\ ResumeTracee
            /\ pc' = "wait_exit"
       ELSE /\ Panic
            /\ UNCHANGED <<inKernel, stopKind, observed, resumes>>
    /\ UNCHANGED <<optSet, regs, intercepted, blocked, checked_path, rawp, logged,
                   status, kregs, tcall, tmem, tcwd, scwd, ncalls, nsignals,
                   helper, hout, handling, decisions, performed, writes, funVars>>

(***************************************************************************)
(* main, line 132: wait().unwrap(), the status is dropped.                 *)
(***************************************************************************)
WaitExit ==
    /\ pc = "wait_exit"
    /\ status # "none"
    /\ status' = "none"
    /\ pc' = "post"
    /\ UNCHANGED <<optSet, regs, intercepted, blocked, checked_path, rawp, logged,
                   tstate, stopKind, inKernel, kregs, tcall, tmem, tcwd, scwd,
                   ncalls, nsignals, helper, hout, histVars, funVars>>

(***************************************************************************)
(* main, lines 134-149.                                                    *)
(***************************************************************************)
Post ==
    /\ pc = "post"
    /\ IF intercepted /\ blocked
       THEN LET r == [regs EXCEPT !.rax = -EPERM] IN
            /\ regs' = r
            /\ IF tstate = "stopped"
               THEN /\ SetRegs(r, "end")
                    /\ logged' = Append(logged, [what |-> "blocked", path |-> checked_path[1]])
                    /\ pc' = "done"
                    /\ tstate' = AfterSupervisorExit(tstate, optSet)
               ELSE /\ Panic
                    /\ UNCHANGED <<kregs, writes, logged>>
       ELSE IF intercepted
       THEN /\ IF checked_path = <<>>
               THEN /\ Panic
                    /\ UNCHANGED logged
               ELSE /\ logged' = Append(logged, [what |-> "allowed", path |-> checked_path[1]])
                    /\ pc' = "resume_entry"
                    /\ UNCHANGED tstate
            /\ UNCHANGED <<regs, kregs, writes>>
       ELSE /\ pc' = "resume_entry"
            /\ UNCHANGED <<regs, kregs, writes, logged, tstate>>
    /\ UNCHANGED <<optSet, intercepted, blocked, checked_path, rawp, stopKind,
                   inKernel, status, tcall, tmem, tcwd, scwd, ncalls, nsignals,
                   helper, hout, handling, decisions, performed, observed, resumes,
                   funVars>>

(***************************************************************************)
(* The tracee and the kernel.  These are the environment of main: what a   *)
(* Linux x86-64 tracee resumed with PTRACE_SYSCALL does between two stops. *)
(***************************************************************************)
\* the NUL-terminated string the kernel reads at address s
RECURSIVE KernelStr(_, _)
KernelStr(mem, s) ==
    IF s + 1 > Len(mem) \/ mem[s + 1] = NUL THEN <<>>
    ELSE <<mem[s + 1]>> \o KernelStr(mem, s + 1)

\* the tracee enters a system call: syscall-entry stop
TraceeSyscallEntry ==
    /\ pc \notin Terminal
    /\ tstate = "running"
    /\ ~inKernel
    /\ \E nr \in {SYS_unlink, SYS_unlinkat, Linux.SYS_chdir, Linux.SYS_getpid, Linux.SYS_exit_group},
          p \in PathArgs, fd \in DirFds, pad \in {0, MaxPad} :
          /\ nr = Linux.SYS_exit_group \/ ncalls < MaxCalls
          /\ nr \in {Linux.SYS_getpid, Linux.SYS_exit_group} => p = <<>> /\ pad = 0
          /\ nr = Linux.SYS_chdir => pad = MaxPad
          /\ nr # SYS_unlinkat => fd = AT_FDCWD
          /\ tmem' = IF nr \in {Linux.SYS_getpid, Linux.SYS_exit_group} THEN <<>>
                     ELSE p \o <<NUL>> \o Junk(pad)
          /\ kregs' = [orig_rax |-> nr, rax |-> -Linux.ENOSYS,
                       rdi |-> IF nr = SYS_unlinkat THEN fd ELSE 0, rsi |-> 0]
          /\ tcall' = [id |-> ncalls + 1, nr |-> nr]
          /\ ncalls' = IF nr = Linux.SYS_exit_group THEN ncalls ELSE ncalls + 1
    /\ tstate' = "stopped"
    /\ stopKind' = "entry"
    /\ status' = "stopped"
    /\ UNCHANGED <<supVars, inKernel, tcwd, scwd, nsignals, helper, hout, histVars,
                   funVars>>

\* the kernel runs the call named by orig_rax, then syscall-exit stop
TraceeSyscallExit ==
    /\ pc \notin Terminal
    /\ tstate = "running"
    /\ inKernel
    /\ inKernel' = FALSE
    /\ LET nr == kregs.orig_rax IN
       \E p \in {IF nr = Linux.SYS_chdir THEN KernelStr(tmem, kregs.rdi) ELSE <<>>} :
          IF nr = Linux.SYS_exit_group
          THEN /\ tstate' = "exited"
               /\ status' = "exited"
               /\ UNCHANGED <<stopKind, kregs, tcwd, performed>>
          ELSE /\ tstate' = "stopped"
               /\ stopKind' = "exit"
               /\ status' = "stopped"
               /\ performed' = IF nr \in Watched THEN performed \cup {tcall.id}
                               ELSE performed
               /\ IF nr = Linux.SYS_chdir /\ p # <<>> /\ from_utf8_ok(p)
                  THEN /\ tcwd' = clean(join(tcwd, p))
                       /\ kregs' = [kregs EXCEPT !.rax = 0]
                  ELSE /\ tcwd' = tcwd
                       /\ kregs' = [kregs EXCEPT !.rax =
                              IF nr \in Watched \cup {Linux.SYS_getpid} THEN 0
                              ELSE IF nr = Linux.SYS_chdir THEN -Linux.ENOENT ELSE -Linux.ENOSYS]
    /\ UNCHANGED <<supVars, tcall, tmem, scwd, ncalls, nsignals, helper, hout,
                   handling, decisions, writes, observed, resumes, funVars>>

\* a signal is about to be delivered in user mode: signal-delivery stop
TraceeSignalStop ==
    /\ pc \notin Terminal
    /\ tstate = "running"
    /\ ~inKernel
    /\ nsignals < MaxSignals
    /\ nsignals' = nsignals + 1
    /\ tstate' = "stopped"
    /\ stopKind' = "signal"
    /\ status' = "stopped"
    /\ kregs' = [kregs EXCEPT !.orig_rax = InvalidSyscall]
    /\ UNCHANGED <<supVars, inKernel, tcall, tmem, tcwd, scwd, ncalls, helper, hout,
                   histVars, funVars>>

\* SIGKILL from outside
TraceeKilled ==
    /\ pc \notin Terminal
    /\ tstate \in {"stopped", "running"}
    /\ tstate' = "killed"
    /\ stopKind' = "none"
    /\ inKernel' = FALSE
    /\ status' = "signaled"
    /\ UNCHANGED <<supVars, kregs, tcall, tmem, tcwd, scwd, ncalls, nsignals, helper,
                   hout, histVars, funVars>>

SupervisorStep ==
    \/ Spawn \/ SetOptions \/ ResumeEntry \/ WaitEntry \/ GetRegs \/ Decode
    \/ DirfdReturn \/ ResumeExit \/ WaitExit \/ Post

TraceeStep == TraceeSyscallEntry \/ TraceeSyscallExit \/ TraceeSignalStop

Next == SupervisorStep \/ HelperRun \/ TraceeStep \/ TraceeKilled

Spec == Init /\ [][Next]_vars

(***************************************************************************)
(* Fairness: the supervisor runs, the tracee reaches its next stop or      *)
(* exits, the helper exits.                                                *)
(***************************************************************************)
SpecLive ==
    /\ Init /\ [][Next]_vars
    /\ WF_vars(SupervisorStep) /\ WF_vars(TraceeStep) /\ WF_vars(HelperRun)

(***************************************************************************)
(* ptrace_read_cstr on its own: every string of at most MaxStrLen bytes,   *)
(* followed by its terminator and by 0..MaxPad mapped bytes.               *)
(***************************************************************************)
StrBytes == {Byte.a, SEP, Byte.bad}

Strings(n) == UNION {[1..k -> StrBytes] : k \in 0..n}

InitRead ==
    /\ InitMain
    /\ \E str \in Strings(MaxStrLen), pad \in 0..MaxPad :
          fin = str \o <<NUL>> \o Junk(pad)

ApplyRead ==
    /\ fout.kind = "None"
    /\ fout' = ptrace_read_cstr(fin, 0)
    /\ UNCHANGED <<supVars, traceeVars, scwd, helper, hout, histVars, fin>>

SpecRead == InitRead /\ [][ApplyRead]_vars

\* the line the helper prints for a handle that refers to directory dir
helper_report(dir) == dir \o <<NL>>

PathBytes == {Byte.a, DOT, SEP}

PathStrings(n) == UNION {[1..k -> PathBytes] : k \in 0..n}

PathExample == <<Byte.a, SEP, DOT, DOT, SEP, Byte.b>>

Origins == Cwds \cup {<<SEP, Byte.x>>}

InitPath ==
    /\ InitMain
    /\ \E p \in PathStrings(MaxStrLen) \cup {PathExample}, origin \in Origins,
          dirfd \in DirFds :
          fin = [p |-> p, origin |-> origin, dirfd |-> dirfd]

ApplyPath ==
    /\ fout.kind = "None"
    /\ fout' = [kind |-> "Path",
                unlink |-> get_unlink_path(fin.p, fin.origin),
                unlinkat |-> get_unlinkat_path(fin.p, fin.dirfd, fin.origin,
                                               helper_report(fin.origin))]
    /\ UNCHANGED <<supVars, traceeVars, scwd, helper, hout, histVars, fin>>

SpecPath == InitPath /\ [][ApplyPath]_vars

TypeOK ==
    /\ pc \in {"spawn", "setoptions", "resume_entry", "wait_entry", "getregs",
               "decode", "dirfd", "resume_exit", "wait_exit", "post", "done",
               "panicked"}
    /\ tstate \in {"none", "stopped", "running", "exited", "killed"}
    /\ stopKind \in {"none", "exec", "entry", "exit", "signal"}
    /\ status \in {"none", "stopped", "exited", "signaled"}
    /\ helper \in {"none", "running", "exited"}
    /\ ncalls \in 0..MaxCalls
    /\ nsignals \in 0..MaxSignals

(***************************************************************************)
(* Claims.                                                                 *)
(***************************************************************************)
Relative(p) == ~starts_with_slash(p)

\* C1: every decision on a watched call is taken once, at the entry stop of
\* that call; a call the kernel has run was decided before it ran; and the
\* kernel never carries out the deletion of a call that was decided Block.
C1_DecidedOnceAtEntry ==
    /\ \A d \in decisions : d.stop = "entry" /\ d.id # 0
    /\ \A d1, d2 \in decisions : d1.id = d2.id => d1 = d2
    /\ \A id \in performed : \E d \in decisions : d.id = id /\ ~d.block
    /\ \A d \in decisions : d.block => d.id \notin performed

\* C2: every watched call whose path was decoded is decided Block, its
\* resolved path starts with '/', and no call is ever logged as allowed.
C2_DecodedIsBlocked ==
    /\ \A d \in decisions : d.block /\ starts_with_slash(d.path)
    /\ \A i \in 1..Len(logged) : logged[i].what = "blocked"
    /\ (pc \in {"resume_exit", "wait_exit", "post"} /\ intercepted) => blocked

C2_Witness ==
    \E d \in decisions :
        d.nr = SYS_unlinkat /\ Relative(d.raw) /\ d.dirfd # AT_FDCWD /\ d.block

\* C3: the supervisor writes no register at the entry stop or the exit stop
\* of a system call other than unlink and unlinkat.
C3_NoWriteAtOtherCalls ==
    \A w \in writes : w.stop \in {"entry", "exit"} => w.nr \in Watched

\* C4: once the tracee has been resumed PTRACE_O_EXITKILL is set, and when
\* the supervisor has ended the tracee is neither stopped nor running.
C4_ExitKill ==
    /\ resumes > 0 => optSet
    /\ pc \in Terminal => tstate \notin {"stopped", "running"}

C4_Witness == pc = "done" /\ Len(logged) = 1 /\ optSet /\ tstate = "killed"

\* C5: the write of -EPERM happens at the exit stop of the call that was
\* decided Block; at most one block is logged per run, and once it is logged
\* the supervisor has left the loop and resumes the tracee no more.
C5_BlockEnforcedAtExit ==
    /\ \A w \in writes : w.site = "end" =>
          /\ w.stop = "exit"
          /\ w.regs.rax = -EPERM
          /\ \E d \in decisions : d.id = w.id /\ d.block
    /\ Len(logged) <= 1
    /\ Len(logged) = 1 => pc = "done"

\* C6: when the run has ended with a logged block, the tracee has run on
\* past the exit stop of a watched call with -EPERM in the return register.
C6_TraceeObservesEPERM ==
    (pc = "done" /\ Len(logged) = 1) =>
        \E o \in observed : o.nr \in Watched /\ o.ret = -EPERM

\* C7: under fairness every run reaches a terminal state of the supervisor
\* (the loop left normally, or a fatal abort).
C7_Terminates == <>(pc \in Terminal)

C7_Witness == pc = "done" /\ tstate = "exited" /\ logged = <<>>

\* C8: for unlink the resolved path is the normalization of the tracee's
\* working directory joined with a relative p, of p alone when absolute.
C8_UnlinkResolvedInTraceeCwd ==
    \A d \in decisions : d.nr = SYS_unlink =>
        d.path = IF Relative(d.raw) THEN clean(join(d.cwd, d.raw)) ELSE clean(d.raw)

\* the directory D of a helper report "D\n"
ReportedDir(out) == IF Len(out) > 0 THEN Truncate(out, Len(out) - 1) ELSE out

\* C9: for unlinkat with a relative p the resolved path is the normalization
\* of D joined with p for a real handle whose helper reports D, and of the
\* working directory joined with p for the sentinel.
C9_UnlinkatResolvedInDir ==
    \A d \in decisions : (d.nr = SYS_unlinkat /\ Relative(d.raw)) =>
        d.path = IF d.dirfd # AT_FDCWD THEN clean(join(ReportedDir(d.dir), d.raw))
                 ELSE clean(join(d.cwd, d.raw))

\* C10: when ptrace_read_cstr returns a string, it is the bytes of tracee
\* memory from the start address up to the first zero byte; it returns none
\* only if those bytes are not valid text or a transfer on the way failed.
C10_ReadCstrExact ==
    LET str == KernelStr(fin, 0)
        lastChunk == ChunkBytes * (Len(str) \div ChunkBytes)
    IN /\ fout.kind = "Ok" => fout.str = str
       /\ fout.kind = "Panic" => ~from_utf8_ok(str)
       /\ fout.kind = "Err" => Len(fin) < lastChunk + WordBytes

C10_Witness == fout.kind = "Ok" /\ Len(fout.str) = ChunkBytes + 1

\* a helper report that is empty, or does not start with '/', or does not
\* end with a line terminator
Malformed(out) == out = <<>> \/ Head(out) # SEP \/ out[Len(out)] # NL

\* C11: when the helper has reported a malformed directory, the step of the
\* supervisor that consumes the report is a fatal abort that resolves no
\* path and takes no decision, and after a fatal abort the supervisor
\* resumes the tracee no more.
C11_MalformedReportIsFatal ==
    [][/\ (pc = "dirfd" /\ helper = "exited" /\ Malformed(hout) /\ pc' # pc) =>
             /\ pc' = "panicked"
             /\ checked_path' = <<>>
             /\ decisions' = decisions
             /\ resumes' = resumes
       /\ pc = "panicked" => (pc' = "panicked" /\ resumes' = resumes)]_vars

C11_Witness ==
    /\ pc = "panicked"
    /\ helper = "none"
    /\ hout = <<SEP, Byte.d>>
    /\ \A d \in decisions : d.id # handling.id

\* an absolute path with no '.' or '..' segment, no duplicate separator and
\* no trailing separator
Normalized(p) ==
    /\ starts_with_slash(p)
    /\ Len(p) > 1 => p[Len(p)] # SEP
    /\ \A i \in 1..Len(p) : p[i] = SEP =>
          LET seg == SubSeq(p, i + 1,
                            IF \E j \in (i + 1)..Len(p) : p[j] = SEP
                            THEN (CHOOSE j \in (i + 1)..Len(p) :
                                     /\ p[j] = SEP
                                     /\ \A k \in (i + 1)..(j - 1) : p[k] # SEP) - 1
                            ELSE Len(p))
          IN /\ seg # <<>> \/ i = Len(p)
             /\ seg # <<DOT>>
             /\ seg # <<DOT, DOT>>

\* C12: every path get_unlink_path and get_unlinkat_path produce is absolute
\* and normalized; a path that is already absolute and normalized is
\* returned unchanged; and a/../b resolved against origin /x is /x/b, be the
\* origin the working directory or the directory of a handle.
C12_ResolutionNormalized ==
    fout.kind = "Path" =>
        /\ Normalized(fout.unlink) /\ Normalized(fout.unlinkat)
        /\ Normalized(fin.p) => (fout.unlink = fin.p /\ fout.unlinkat = fin.p)
        /\ (fin.p = PathExample /\ fin.origin = <<SEP, Byte.x>>) =>
              /\ fout.unlink = <<SEP, Byte.x, SEP, Byte.b>>
              /\ fout.unlinkat = <<SEP, Byte.x, SEP, Byte.b>>

\* the tracee no longer exists
Gone == tstate \in {"exited", "killed"}

\* C13: when the tracee is gone at the resume to the exit stop, or the wait
\* after that resume reports it exited or signaled, the supervisor does not
\* abort and writes no register: the loop ends normally.
C13_ExitSideEndsNormally ==
    [][(pc \in {"resume_exit", "wait_exit", "post"} /\ Gone) =>
           (pc' # "panicked" /\ writes' = writes)]_vars

\* C14: the stop at which the loop fetches the registers is a syscall-entry
\* stop, and the stop it reaches by the following resume is the exit stop of
\* the same call.
C14_InPhase ==
    /\ handling.stop \in {"none", "entry"}
    /\ (pc = "post" /\ tstate = "stopped") =>
          (stopKind = "exit" /\ tcall.id = handling.id)

\* C15: the registers written at the exit stop of a blocked call come from a
\* snapshot fetched at that same stop, and differ from the registers the
\* tracee had at that stop in the return-value slot only.
C15_FreshSnapshotAtExit ==
    \A w \in writes : w.site = "end" =>
        /\ w.fetched.stop = "exit" /\ w.fetched.id = w.id
        /\ w.regs = [w.old EXCEPT !.rax = -EPERM]

\* a register read or write, or the read of the path string, is about to
\* fail (the tracee is gone), or the path string cannot be read or decoded
FatalAhead ==
    \/ pc = "getregs" /\ Gone
    \/ /\ pc = "decode" /\ regs.orig_rax \in Watched
       /\ \/ Gone
          \/ ptrace_read_cstr(tmem, IF regs.orig_rax = SYS_unlink THEN regs.rdi
                                    ELSE regs.rsi).kind # "Ok"
    \/ pc = "dirfd" /\ helper = "exited" /\ (Gone \/ Malformed(hout))
    \/ pc = "post" /\ intercepted /\ blocked /\ Gone

\* C16: a step of the supervisor that meets a fatal condition ends in the
\* aborted state, with no resume and no register write in it; and from the
\* aborted state the supervisor resumes, writes and decides nothing more.
C16_FatalEndsRun ==
    [][/\ (FatalAhead /\ pc' # pc) =>
             (pc' = "panicked" /\ resumes' = resumes /\ writes' = writes)
       /\ pc = "panicked" =>
             /\ pc' = "panicked"
             /\ resumes' = resumes /\ writes' = writes /\ decisions' = decisions]_vars

C16_Witness ==
    /\ pc = "panicked"
    /\ handling.nr = SYS_unlink
    /\ ~from_utf8_ok(KernelStr(tmem, 0))
    /\ decisions = {}

\* C17: an unlinkat call with an absolute path argument is decided without a
\* helper process, whatever its first argument, and its resolved path is the
\* normalization of the path argument alone.
C17_AbsoluteIgnoresHandle ==
    /\ \A d \in decisions : (d.nr = SYS_unlinkat /\ starts_with_slash(d.raw)) =>
          (d.dir = <<>> /\ d.path = clean(d.raw))
    /\ (pc = "dirfd" \/ helper # "none") => Relative(rawp)

C17_Witness ==
    /\ hout = <<>>
    /\ \E d \in decisions :
          d.nr = SYS_unlinkat /\ starts_with_slash(d.raw) /\ d.dirfd # AT_FDCWD

\* C18: while the helper process exists the supervisor waits for it and the
\* tracee does not run, stopped at a syscall-entry stop if it still exists;
\* and whenever the supervisor is at a step that reads or writes the
\* tracee's registers or memory, the tracee is not running.
C18_TraceeHeldWhileHelperRuns ==
    /\ helper # "none" =>
          /\ pc = "dirfd"
          /\ tstate \in {"stopped", "killed"}
          /\ tstate = "stopped" => stopKind = "entry"
    /\ pc \in {"getregs", "decode", "dirfd", "post"} => tstate # "running"
    /\ \A w \in writes : w.stop # "none"

\* C19: whenever the loop is past the decode of a call it marked
\* intercepted, up to the step that logs the outcome, a checked path is
\* present for the log to unwrap.
C19_CheckedPathPresent ==
    (pc \in {"resume_exit", "wait_exit", "post"} /\ intercepted) =>
        (checked_path # <<>> /\ Len(checked_path) = 1)

C19_Witness ==
    /\ pc = "post"
    /\ intercepted
    /\ checked_path = <<clean(join(scwd, rawp))>>
    /\ Relative(rawp)

\* C20: ptrace_read_cstr does not fail when the tracee's memory is readable
\* from the start address to the end of the chunk that holds the terminating
\* zero byte: it needs no byte beyond that chunk.
C20_ReadNeedsOnlyTerminatorChunk ==
    LET str == KernelStr(fin, 0)
        lastChunk == ChunkBytes * (Len(str) \div ChunkBytes)
    IN (fout.kind # "None" /\ Len(fin) >= lastChunk + ChunkBytes) =>
           fout.kind # "Err"

====
